---- MODULE Spec2Model ----
(***************************************************************************)
(* Repetition counting engines of the pose corrector backend.              *)
(*                                                                         *)
(*   ComprehensivePoseCorrector  (comprehensive_pose_corrector.py)         *)
(*       advanced_rep_detection -> determine_exercise_phase ->             *)
(*       validate_and_update_phase -> check_rep_completion                 *)
(*   ProfessionalPoseCorrector   (professional_pose_corrector.py)          *)
(*       universal_rep_detection  (the path process_frame and the API use) *)
(*       advanced_rep_detection -> determine_movement_phase ->             *)
(*       validate_phase_transition -> detect_rep_completion                *)
(*                                                                         *)
(* Units.  Angles are whole degrees.  Time is counted in ticks of 1/30 s   *)
(* (one frame at 30 fps).  Velocities are kept in hundredths of a degree   *)
(* per frame, so abs(a - b) / 4 is 25 * abs(a - b).  A position in the     *)
(* window is the fraction num / den and is compared by cross               *)
(* multiplication, which is exact; for whole-degree inputs it agrees with  *)
(* the floating point comparison of the source.                            *)
(*                                                                         *)
(* Python indices are 0-based, sequences here are 1-based: channel i of    *)
(* the source is component i + 1 of a frame.                               *)
(***************************************************************************)
EXTENDS Integers, Sequences, FiniteSets, TLC

(***************************************************************************)
(* Bounds of the exploration.                                              *)
(***************************************************************************)
\* frames the main loop of ComprehensivePoseCorrector passes after the first 15
MaxFrames == 13
\* free frames of the movement of 10 degrees
MaxSmallFrames == 8
\* frames of the repeated cycle fed to advanced_rep_detection
MaxCycleFrames == 34
\* free frames that follow the fixed frames of "professional_restart"
MaxRestartFrames == 6
\* calls of determine_exercise_phase on drawn arguments
MaxClassifications == 2
MaxApiCurls == 2
\* free frames fed to ProfessionalPoseCorrector.advanced_rep_detection
MaxProFrames == 11
\* free frames fed through process_frame once 9 frames are buffered
MaxApiFrames == 9
MaxSessionFrames == 4
MaxControls == 2
MaxEnhancedFrames == 28
MaxSummaryFrames == 4
MaxGenericFrames == 3
MaxCounterFrames == 6
\* free frames fed to advanced_rep_detection once a pattern is bound
MaxPatternFrames == 5

(***************************************************************************)
(* Program constants.                                                      *)
(***************************************************************************)
ComprehensiveAngleMaxlen == 60
ComprehensivePhaseMaxlen == 20
ComprehensiveHistoryMaxlen == 10
ComprehensiveWindow == 15
ProfessionalAngleMaxlen == 45
ProfessionalPhaseMaxlen == 10
ProfessionalHistoryMaxlen == 20
ProfessionalWindow == 15
UniversalWindow == 10

Phases == {"start", "quarter", "peak", "return", "end"}

(***************************************************************************)
(* Inputs.  A frame is the feature vector of extract_*_features: 8 joint   *)
(* angles (left/right elbow, shoulder, hip, knee).  The poses fed to the   *)
(* engines move both arms together and keep hips and knees extended.       *)
(***************************************************************************)
Angles == {60, 170}
Pose(a) == <<a, a, a, a, 170, 170, 170, 170>>
NoFeatures == <<>>

\* A pose that moves the knees and keeps the arms bent
KneePose(a) == <<60, 60, 60, 60, 170, 170, a, a>>

\* time.time() between two frames: the next frame (1 tick) or a pause of
\* more than one second (31 ticks)
Delays == {1, 31}

(***************************************************************************)
(* Python helpers.                                                         *)
(***************************************************************************)
\* s[-n:]
Tail_(s, n) == IF Len(s) <= n THEN s ELSE SubSeq(s, Len(s) - n + 1, Len(s))

\* A faulty variant: a list, which grows without bound
PushWithoutEviction(s, x, cap) == Append(s, x)

\* deque(maxlen=cap).append(x)
Push(s, x, cap) == Tail_(Append(s, x), cap)

\* list.count(x)
Count(s, x) == Cardinality({i \in 1..Len(s) : s[i] = x})

Abs(x) == IF x < 0 THEN -x ELSE x

SeqMax(s) == CHOOSE m \in {s[i] : i \in 1..Len(s)} : \A j \in 1..Len(s) : s[j] <= m
SeqMin(s) == CHOOSE m \in {s[i] : i \in 1..Len(s)} : \A j \in 1..Len(s) : m <= s[j]

\* np.argmax: the first index of the maximum
ArgMax(s) == CHOOSE i \in 1..Len(s) :
                 /\ \A j \in 1..Len(s) : s[j] <= s[i]
                 /\ \A j \in 1..(i - 1) : s[j] < s[i]

\* [frame[idx] for frame in frames]
Channel(frames_, idx) == [k \in 1..Len(frames_) |-> frames_[k][idx]]

VARIABLES
    driver,                 \* which class and entry point the caller drives
    now,                    \* the last value time.time() returned
    frames,                 \* frames the caller has passed so far
    outcome,                \* how the last call ended
    angle_buffer,
    phase_buffer,
    phase_history,          \* phase_history_buffer in ComprehensivePoseCorrector
    rep_count,
    current_phase,
    reported_phase,         \* the phase the last call returned to its caller
    last_rep_time,
    phase_transition_count,
    target_exercise_pattern, \* "None", or the 'range' of the pattern of the bound id
    current_exercise_id,
    current_exercise_name,
    current_category,
    seen_peak,              \* history: peak was committed since the last counted rep
    pause_seen,             \* history: a pause was seen since end was committed
    observed_range,         \* history: the range the last call compared with min_angle_range
    vote_holds,             \* history: for each entry of phase_buffer, whether the
                            \* candidate was the phase committed when it was cast
    fresh_votes,            \* history: candidates universal_rep_detection has put into
                            \* phase_buffer since the last reset ("api_summary" only)
    classified,             \* history: the candidate of the last call, with the position
                            \* and the velocity it was read from
    rep_due,                \* history: the last call found the cycle, cooldown and range of a rep
    session_start_time,     \* "set" (a time.time() value) or "None"
    client,                 \* the connection whose message was handled last (0: none yet)
    loop_holder,            \* the coroutine running on the event loop, "none" between messages
    returned,               \* what set_target_exercise returned to the last handler,
                            \* "none" if the handler did not call it
    controls,               \* resets and bindings handled since an exercise was bound
    repeated                \* history: the last two messages handled were the same reset

vars == <<driver, now, frames, outcome, angle_buffer, phase_buffer, phase_history,
          rep_count, current_phase, reported_phase, last_rep_time, phase_transition_count,
          target_exercise_pattern, current_exercise_id, current_exercise_name, current_category,
          seen_peak, pause_seen, observed_range, vote_holds, fresh_votes, classified,
          rep_due,
          session_start_time, client, loop_holder, returned, controls, repeated>>

\* What only the handlers of pose_corrector_api.py touch
apivars == <<session_start_time, client, loop_holder, returned, controls, repeated>>

(***************************************************************************)
(* The clock.  Every comparison of the source reads timestamp -            *)
(* last_rep_time and the largest cooldown is one second, so timestamps     *)
(* later than Horizon ticks after last_rep_time are all alike; the         *)
(* earliest of them stands for the rest.                                   *)
(***************************************************************************)
Horizon == 31
Clock(dt) == IF now + dt > last_rep_time + Horizon THEN last_rep_time + Horizon ELSE now + dt

(***************************************************************************)
(* ComprehensivePoseCorrector.                                             *)
(***************************************************************************)
\* load_exercise_thresholds: velocity thresholds in hundredths
exercise_thresholds ==
    [default |->
        [min_angle_range |-> 25, phase_stability |-> 3, rep_cooldown |-> 20,
         confidence_threshold |-> 70, velocity_threshold |-> 150],
     category_specific |->
        [upper_body |-> [min_angle_range |-> 30, velocity_threshold |-> 200, rep_cooldown |-> 15],
         lower_body |-> [min_angle_range |-> 35, velocity_threshold |-> 120, rep_cooldown |-> 25],
         core       |-> [min_angle_range |-> 20, velocity_threshold |-> 180, rep_cooldown |-> 18],
         cardio     |-> [min_angle_range |-> 15, velocity_threshold |-> 250, rep_cooldown |-> 10]]]

\* exercise_thresholds['category_specific'].get(category, exercise_thresholds['default'])
category_thresholds(category) ==
    IF category \in DOMAIN exercise_thresholds.category_specific
    THEN exercise_thresholds.category_specific[category]
    ELSE exercise_thresholds.default

get_primary_angles_for_exercise(category) ==
    CASE category = "upper_body" -> <<1, 2, 3, 4>>
      [] category = "lower_body" -> <<5, 6, 7, 8>>
      [] category = "core"       -> <<3, 4, 5, 6>>
      [] category = "cardio"     -> <<1, 2, 7, 8>>
      [] OTHER                   -> <<1, 2, 3, 4>>


\* The position of primary_angle in the window of channel angle_idx, as the
\* fraction num / den; 1/2 when the window is flat.
WindowPosition(primary_angle, recent_angles, angle_idx) ==
    LET recent_vals == Channel(recent_angles, angle_idx)
        min_val == SeqMin(recent_vals)
        max_val == SeqMax(recent_vals)
    IN  IF max_val > min_val
        THEN [num |-> primary_angle - min_val, den |-> max_val - min_val]
        ELSE [num |-> 1, den |-> 2]

\* position > c/100 and position < c/100
PosAbove(pos, c) == 100 * pos.num > c * pos.den
PosBelow(pos, c) == 100 * pos.num < c * pos.den

\* A faulty variant of the state machine: return gives way to end as soon
\* as the position is low, whatever the velocity
PhaseEndingWithoutPause(phase, primary_angle, velocity, thresholds, recent_angles, angle_idx) ==
    LET position == WindowPosition(primary_angle, recent_angles, angle_idx)
        vT == thresholds.velocity_threshold
    IN  CASE phase = "start" ->
                IF PosAbove(position, 25) /\ velocity > vT THEN "quarter" ELSE phase
          [] phase = "quarter" ->
                IF PosAbove(position, 70) /\ 100 * velocity > 80 * vT THEN "peak"
                ELSE IF PosBelow(position, 15) THEN "start"
                ELSE phase
          [] phase = "peak" ->
                IF PosBelow(position, 60) /\ 100 * velocity > 60 * vT THEN "return" ELSE phase
          [] phase = "return" ->
                IF PosBelow(position, 20) THEN "end"
                ELSE IF PosAbove(position, 70) THEN "peak"
                ELSE phase
          [] phase = "end" ->
                IF velocity > vT /\ PosAbove(position, 20) THEN "start" ELSE phase
          [] OTHER -> phase

\* A faulty variant of the state machine: from return, low in the window and
\* slow, it proposes start, skipping end.
PhaseRestartingFromReturn(phase, primary_angle, velocity, thresholds, recent_angles, angle_idx) ==
    LET position == WindowPosition(primary_angle, recent_angles, angle_idx)
        vT == thresholds.velocity_threshold
    IN  CASE phase = "start" ->
                IF PosAbove(position, 25) /\ velocity > vT THEN "quarter" ELSE phase
          [] phase = "quarter" ->
                IF PosAbove(position, 70) /\ 100 * velocity > 80 * vT THEN "peak"
                ELSE IF PosBelow(position, 15) THEN "start"
                ELSE phase
          [] phase = "peak" ->
                IF PosBelow(position, 60) /\ 100 * velocity > 60 * vT THEN "return" ELSE phase
          [] phase = "return" ->
                IF PosBelow(position, 20) /\ 100 * velocity < 50 * vT THEN "start"
                ELSE IF PosAbove(position, 70) THEN "peak"
                ELSE phase
          [] phase = "end" ->
                IF velocity < 100 /\ PosBelow(position, 15) THEN "end"
                ELSE IF velocity > vT /\ PosAbove(position, 20) THEN "start"
                ELSE phase
          [] OTHER -> phase

\* The state machine of determine_exercise_phase.  phase is
\* self.current_phase, velocity is in hundredths, and
\* thresholds.velocity_threshold * k/100 is the scaled guard.
PhaseStateMachine(phase, primary_angle, velocity, thresholds, recent_angles, angle_idx) ==
    LET position == WindowPosition(primary_angle, recent_angles, angle_idx)
        vT == thresholds.velocity_threshold
    IN  CASE phase = "start" ->
                IF PosAbove(position, 25) /\ velocity > vT THEN "quarter" ELSE phase
          [] phase = "quarter" ->
                IF PosAbove(position, 70) /\ 100 * velocity > 80 * vT THEN "peak"
                ELSE IF PosBelow(position, 15) THEN "start"
                ELSE phase
          [] phase = "peak" ->
                IF PosBelow(position, 60) /\ 100 * velocity > 60 * vT THEN "return" ELSE phase
          [] phase = "return" ->
                IF PosBelow(position, 20) /\ 100 * velocity < 50 * vT THEN "end"
                ELSE IF PosAbove(position, 70) THEN "peak"
                ELSE phase
          [] phase = "end" ->
                IF velocity < 100 /\ PosBelow(position, 15) THEN "end"
                ELSE IF velocity > vT /\ PosAbove(position, 20) THEN "start"
                ELSE phase
          [] OTHER -> phase


\* The candidate phase: the current one when the observed range is too small
determine_exercise_phase(phase, primary_angle, velocity, angle_range, thresholds, recent_angles, angle_idx) ==
    IF angle_range < thresholds.min_angle_range THEN phase
    ELSE PhaseStateMachine(phase, primary_angle, velocity, thresholds, recent_angles,
                           angle_idx)

valid_transitions ==
    [start |-> {"quarter"}, quarter |-> {"peak", "start"}, peak |-> {"return"},
     return |-> {"end", "peak"}, end |-> {"start"}]

\* A faulty variant of Consensus: one occurrence is enough.
ConsensusOfOne(recent_phases, new_phase) == Count(recent_phases, new_phase) >= 1

\* The consensus needed among the last phase_stability candidates
Consensus(recent_phases, new_phase) == Count(recent_phases, new_phase) >= 2



\* Returns the committed phase and the history after the call.
validate_and_update_phase(new_phase, thresholds, buffer, phase, history) ==
    LET recent_phases == Tail_(buffer, thresholds.phase_stability)
    IN  IF Consensus(recent_phases, new_phase) /\ new_phase \in valid_transitions[phase]
        THEN [phase |-> new_phase,
              history |-> Push(history, new_phase, ComprehensiveHistoryMaxlen)]
        ELSE [phase |-> phase, history |-> history]


\* timestamp - last_rep_time > rep_cooldown / 30.0, in ticks of 1/30 s
check_rep_completion(timestamp, max_range, thresholds, phase, history, last) ==
    /\ phase = "end"
    /\ timestamp - last > thresholds.rep_cooldown
    /\ max_range > thresholds.min_angle_range
    /\ Len(history) >= 3

\* A faulty variant of IncrementRep: a completion counts twice.
IncrementRepTwice(n) == n + 2

\* self.rep_count += 1
IncrementRep(n) == n + 1

\* abs(values[-1] - values[-5]) / 4, in hundredths; 0 with fewer than 5 values
Velocity4(values) ==
    IF Len(values) >= 5 THEN 25 * Abs(values[Len(values)] - values[Len(values) - 4]) ELSE 0

\* ComprehensivePoseCorrector.advanced_rep_detection on the state st
\* (angle_buffer, phase_buffer, history, phase, rep_count, last_rep_time,
\* category): the state after the call, how the call ended, and the candidate,
\* position and velocity it worked with.
ComprehensiveDetect(st, current_angles, timestamp) ==
    LET unchanged == [st EXCEPT !.outcome = "not_ready", !.reported = "start"]
    IN
    IF current_angles = NoFeatures \/ Len(st.angle_buffer) < ComprehensiveWindow
    THEN unchanged
    ELSE
    LET buf == Push(st.angle_buffer, current_angles, ComprehensiveAngleMaxlen)
        thresholds == category_thresholds(st.category)
        recent_angles == Tail_(buf, ComprehensiveWindow)
        primary_angles == get_primary_angles_for_exercise(st.category)
        angle_ranges == [i \in 1..Len(primary_angles) |->
                            LET values == Channel(recent_angles, primary_angles[i])
                            IN  SeqMax(values) - SeqMin(values)]
        angle_velocities == [i \in 1..Len(primary_angles) |->
                                Velocity4(Channel(recent_angles, primary_angles[i]))]
        max_range_idx == ArgMax(angle_ranges)
        actual_angle_idx == primary_angles[max_range_idx]
        primary_angle_val == current_angles[actual_angle_idx]
        max_velocity == SeqMax(angle_velocities)
        new_phase == determine_exercise_phase(st.phase, primary_angle_val, max_velocity,
                         angle_ranges[max_range_idx], thresholds, recent_angles,
                         actual_angle_idx)
        pbuf == Push(st.phase_buffer, new_phase, ComprehensivePhaseMaxlen)
        seen == [st EXCEPT !.angle_buffer = buf, !.phase_buffer = pbuf,
                           !.holds = Push(st.holds, new_phase = st.phase,
                                          ComprehensivePhaseMaxlen),
                           !.candidate = new_phase, !.velocity = max_velocity,
                           !.position = WindowPosition(primary_angle_val, recent_angles,
                                                       actual_angle_idx),
                           !.range = angle_ranges[max_range_idx]]
    IN
    \* thresholds['phase_stability'] raises KeyError for the category-specific
    \* tables; the except clause returns with the two appends done
    IF "phase_stability" \notin DOMAIN thresholds
    THEN [seen EXCEPT !.outcome = "caught"]
    ELSE
    LET upd == IF Len(pbuf) >= thresholds.phase_stability
               THEN validate_and_update_phase(new_phase, thresholds, pbuf, st.phase, st.history)
               ELSE [phase |-> st.phase, history |-> st.history]
        rep == check_rep_completion(timestamp, SeqMax(angle_ranges), thresholds,
                                    upd.phase, upd.history, st.last_rep_time)
    IN  [seen EXCEPT !.phase = upd.phase, !.history = upd.history,
                     !.rep_count = IF rep THEN IncrementRep(st.rep_count) ELSE st.rep_count,
                     !.last_rep_time = IF rep THEN timestamp ELSE st.last_rep_time,
                     !.outcome = "ok"]

\* The session state as one record, and the record written back
Session ==
    [angle_buffer |-> angle_buffer, phase_buffer |-> phase_buffer, holds |-> vote_holds,
     fresh |-> fresh_votes,
     history |-> phase_history, phase |-> current_phase, rep_count |-> rep_count,
     last_rep_time |-> last_rep_time, transitions |-> phase_transition_count,
     category |-> current_category, name |-> current_exercise_name,
     id |-> current_exercise_id, pattern |-> target_exercise_pattern,
     reported |-> "current",
     outcome |-> outcome, possible |-> TRUE, due |-> FALSE, candidate |-> current_phase,
     position |-> [num |-> 1, den |-> 2], velocity |-> 0, range |-> 0]

\* The history variables: peak committed since the last counted rep, the
\* range the call worked with, and a frame with velocity < 1.0 and position
\* < c/100 seen since end was committed (the committing frame included).
Observe(st, pause_below) ==
    /\ seen_peak' = IF st.rep_count # rep_count THEN FALSE
                    ELSE seen_peak \/ st.phase = "peak"
    /\ observed_range' = st.range
    /\ classified' = [candidate |-> st.candidate, position |-> st.position,
                      velocity |-> st.velocity]
    /\ rep_due' = st.due
    /\ pause_seen' = /\ st.phase = "end"
                     /\ \/ current_phase = "end" /\ pause_seen
                        \/ st.velocity < 100 /\ PosBelow(st.position, pause_below)

Store(st) ==
    /\ angle_buffer' = st.angle_buffer
    /\ phase_buffer' = st.phase_buffer
    /\ vote_holds' = st.holds
    /\ fresh_votes' = IF driver = "api_summary" THEN st.fresh ELSE 0
    /\ phase_history' = st.history
    /\ current_phase' = st.phase
    /\ reported_phase' = IF st.reported = "current" THEN st.phase ELSE st.reported
    /\ rep_count' = st.rep_count
    /\ last_rep_time' = st.last_rep_time
    /\ phase_transition_count' = st.transitions
    /\ target_exercise_pattern' = st.pattern
    /\ outcome' = st.outcome

(***************************************************************************)
(* ProfessionalPoseCorrector.                                              *)
(***************************************************************************)
\* self.thresholds: the cooldown in ticks (1.0 s), the velocity in hundredths
thresholds_ ==
    [min_angle_range |-> 25, phase_stability_frames |-> 3, rep_cooldown_seconds |-> 30,
     confidence_threshold |-> 50, velocity_threshold |-> 150]

\* The exercise names the callers bind, with the words the substring tests
\* of universal_rep_detection and advanced_rep_detection find in name.lower()
ExerciseWords ==
    [x \in {"No exercise selected", "bicep curl", "barbell squat", "cocoons",
            "dumbbell seated bicep curl"} |->
        CASE x = "bicep curl"    -> {"curl"}
          [] x = "dumbbell seated bicep curl" -> {"curl"}
          [] x = "barbell squat" -> {"squat"}
          [] OTHER               -> {}]

Has(name, word) == word \in ExerciseWords[name]

\* An entry of angle_buffer: universal_rep_detection appends the primary angle
\* (a float, here <<a>>), advanced_rep_detection the feature list (8 angles)
IsFloat(entry) == Len(entry) = 1

Min2(a, b) == IF a <= b THEN a ELSE b
Max2(a, b) == IF a >= b THEN a ELSE b

\* max(angle_ranges) over the tuples (range, i): the largest range, and among
\* equal ranges the largest i
BestJoint(ranges) ==
    CHOOSE i \in 1..Len(ranges) :
        \A j \in 1..Len(ranges) : ranges[j] < ranges[i] \/ (ranges[j] = ranges[i] /\ j <= i)

\* The primary angle and the angle thresholds of universal_rep_detection.
\* features: left/right elbow 1 2, shoulder 3 4, hip 5 6, knee 7 8.
UniversalPrimary(name, features, buffer) ==
    LET elbow == Min2(features[1], features[2])
        knee == Min2(features[7], features[8])
        shoulder == Max2(features[3], features[4])
        all_angles == <<features[1], features[2], features[3], features[4],
                        features[7], features[8]>>
        recent_angles == Tail_(buffer, UniversalWindow)
        joint_values == SelectSeq(recent_angles, IsFloat)
        \* every joint gets the range of the same buffer
        values == [k \in 1..Len(joint_values) |-> joint_values[k][1]]
        angle_ranges == [i \in 1..Len(all_angles) |-> SeqMax(values) - SeqMin(values)]
        best_joint == BestJoint(angle_ranges)
    IN
    CASE Has(name, "curl") ->
            [angle |-> elbow, extended |-> 150, quarter |-> 120, peak |-> 70, return |-> 110]
      [] Has(name, "squat") \/ Has(name, "lunge") ->
            [angle |-> knee, extended |-> 170, quarter |-> 140, peak |-> 90, return |-> 120]
      [] Has(name, "press") /\ (Has(name, "bench") \/ Has(name, "chest")) ->
            [angle |-> elbow, extended |-> 170, quarter |-> 120, peak |-> 70, return |-> 100]
      [] Has(name, "press") /\ (Has(name, "shoulder") \/ Has(name, "overhead")) ->
            [angle |-> elbow, extended |-> 170, quarter |-> 130, peak |-> 60, return |-> 100]
      [] Has(name, "raise") ->
            [angle |-> shoulder, extended |-> 30, quarter |-> 60, peak |-> 120, return |-> 90]
      [] Has(name, "row") \/ (Has(name, "pull") /\ ~Has(name, "down")) ->
            [angle |-> elbow, extended |-> 170, quarter |-> 120, peak |-> 70, return |-> 100]
      [] Has(name, "pulldown") \/ (Has(name, "pull") /\ Has(name, "down")) ->
            [angle |-> elbow, extended |-> 170, quarter |-> 120, peak |-> 60, return |-> 100]
      [] OTHER ->
            [angle |-> IF Len(buffer) >= UniversalWindow /\ Len(joint_values) > 1
                       THEN all_angles[best_joint] ELSE elbow,
             extended |-> 160, quarter |-> 120, peak |-> 70, return |-> 100]

\* Universal phase detection: the phase read off the primary angle alone
UniversalPhase(primary_angle, th) ==
    IF primary_angle > th.extended THEN "start"
    ELSE IF primary_angle > th.quarter THEN "quarter"
    ELSE IF primary_angle < th.peak THEN "peak"
    ELSE IF primary_angle < th.return THEN "return"
    ELSE "end"

\* max(set(phase_buffer), key=list(phase_buffer).count): the phases a call
\* can return.  Among phases of equal count max() returns the one the set
\* iterates first, which depends on the string hashes of the process.
MostCommon(buffer) ==
    LET present == {buffer[i] : i \in 1..Len(buffer)}
    IN  {p \in present : \A q \in present : Count(buffer, q) <= Count(buffer, p)}

\* The cooldown of universal_rep_detection: timestamp - last_rep_time > 0.8
UniversalCooldownPassed(timestamp, last) == 10 * (timestamp - last) > 8 * 30

\* A faulty variant: a frame without landmarks repeats the current phase
\* in phase_buffer
SkipHoldingPhase(st, why) ==
    [st EXCEPT !.outcome = why,
               !.phase_buffer = Push(st.phase_buffer, st.phase, ProfessionalPhaseMaxlen),
               !.holds = Push(st.holds, TRUE, ProfessionalPhaseMaxlen)]

\* The early returns that assign nothing: process_frame returning
\* (frame, None) for a frame without landmarks or without a bound exercise,
\* universal_rep_detection returning its fields for empty features; why
\* names the path
SkipFrame(st, why) == [st EXCEPT !.outcome = why]

\* What cycle_complete and is_good_rep ask of the state after the vote: start
\* committed again, 3 or more entries of history with peak among the last 5,
\* the cooldown passed and a range above 35 degrees over the last 10 frames
RepConditions(history, phase, timestamp, last, angle_range) ==
    /\ Len(history) >= 3
    /\ \E i \in 1..Len(history) : i > Len(history) - 5 /\ history[i] = "peak"
    /\ phase = "start"
    /\ UniversalCooldownPassed(timestamp, last)
    /\ angle_range > 35

\* ProfessionalPoseCorrector.universal_rep_detection on the state st.
\* most_common is the value max() returns on this call; the result is marked
\* possible when it is one of the most common phases of the buffer.
UniversalDetect(st, features, timestamp, most_common) ==
    IF features = NoFeatures THEN SkipFrame(st, "no_features")
    ELSE
    LET sel == UniversalPrimary(st.name, features, st.angle_buffer)
        primary_angle == sel.angle
        buf == Push(st.angle_buffer, <<primary_angle>>, ProfessionalAngleMaxlen)
        appended == [st EXCEPT !.angle_buffer = buf]
    IN
    IF Len(buf) < UniversalWindow THEN [appended EXCEPT !.outcome = "not_ready"]
    ELSE
    LET recent_angles == Tail_(buf, UniversalWindow)
    IN
    \* max() and min() over floats and feature lists raise TypeError
    IF \E i \in 1..Len(recent_angles) : ~IsFloat(recent_angles[i])
    THEN [appended EXCEPT !.outcome = "raised"]
    ELSE
    LET values == [i \in 1..Len(recent_angles) |-> recent_angles[i][1]]
        angle_range == SeqMax(values) - SeqMin(values)
        new_phase == UniversalPhase(primary_angle, sel)
        pbuf == Push(st.phase_buffer, new_phase, ProfessionalPhaseMaxlen)
        change == Len(pbuf) >= 3 /\ most_common # st.phase
        phase == IF change THEN most_common ELSE st.phase
        history == IF change THEN Push(st.history, most_common, ProfessionalHistoryMaxlen)
                   ELSE st.history
        voted == [appended EXCEPT !.phase_buffer = pbuf, !.phase = phase,
                                  !.fresh = Min2(st.fresh + 1, ProfessionalPhaseMaxlen),
                                  !.holds = Push(st.holds, new_phase = st.phase,
                                                 ProfessionalPhaseMaxlen),
                                  !.history = history, !.candidate = new_phase,
                                  !.range = angle_range,
                                  !.possible = most_common \in MostCommon(pbuf),
                                  !.due = RepConditions(history, phase, timestamp,
                                                        st.last_rep_time, angle_range)]
    IN
    \* cycle_complete: with 3 or more entries the slice self.phase_history[-5:]
    \* of a deque raises TypeError; with fewer the conjunction is False
    IF Len(history) >= 3
    THEN [voted EXCEPT !.outcome = "raised"]
    ELSE
    LET cycle_complete == FALSE
        is_good_rep == /\ cycle_complete
                       /\ UniversalCooldownPassed(timestamp, st.last_rep_time)
                       /\ angle_range > 35
    IN  IF is_good_rep
        THEN [voted EXCEPT !.rep_count = IncrementRep(st.rep_count),
                           !.last_rep_time = timestamp, !.history = <<>>,
                           !.outcome = "ok"]
        ELSE [voted EXCEPT !.outcome = "ok"]

\* The values of recent_values without the newest of each channel
OlderValues(recent_values) ==
    [k \in 1..(Len(recent_values) - Len(recent_values) \div 5) |->
        recent_values[k + (k - 1) \div 4]]

\* A faulty variant of MovementPosition: the minimum and the maximum are
\* taken over the values without the newest frame.
PositionOverOlderValues(current2, recent_values) ==
    LET min_angle == SeqMin(OlderValues(recent_values))
        max_angle == SeqMax(OlderValues(recent_values))
    IN  IF max_angle > min_angle
        THEN [num |-> current2 - 2 * min_angle, den |-> 2 * (max_angle - min_angle)]
        ELSE [num |-> 1, den |-> 2]

\* The position of current_angle between min(recent_values) and
\* max(recent_values), as the fraction num / den.  current_angle is np.mean of
\* two whole angles, passed as their sum current2 (twice the mean).  For
\* max = min the source returns the current phase before it divides; the
\* position is then given as 1/2.
MovementPosition(current2, recent_values) ==
    LET min_angle == SeqMin(recent_values)
        max_angle == SeqMax(recent_values)
    IN  IF max_angle > min_angle
        THEN [num |-> current2 - 2 * min_angle, den |-> 2 * (max_angle - min_angle)]
        ELSE [num |-> 1, den |-> 2]

\* The state machine of determine_movement_phase, entered when the range is
\* large enough.  phase is self.current_phase.
MovementStateMachine(phase, current2, velocity, recent_values) ==
    LET min_angle == SeqMin(recent_values)
        max_angle == SeqMax(recent_values)
        position == MovementPosition(current2, recent_values)
        vT == thresholds_.velocity_threshold
    IN  IF max_angle <= min_angle THEN phase
        ELSE
        CASE phase = "start" ->
                IF PosAbove(position, 25) /\ velocity > vT THEN "quarter" ELSE phase
          [] phase = "quarter" ->
                IF PosAbove(position, 75) /\ velocity > 150 THEN "peak"
                ELSE IF PosBelow(position, 20) /\ velocity < 200 THEN "start"
                ELSE phase
          [] phase = "peak" ->
                IF PosBelow(position, 70) /\ velocity > 100 THEN "return" ELSE phase
          [] phase = "return" ->
                IF PosBelow(position, 25) /\ velocity < 150 THEN "end"
                ELSE IF PosAbove(position, 60) THEN "peak"
                ELSE phase
          [] phase = "end" ->
                IF velocity < 100 /\ PosBelow(position, 20) THEN "end"
                ELSE IF velocity > vT /\ PosAbove(position, 30) THEN "start"
                ELSE phase
          [] OTHER -> phase

\* A faulty variant of determine_movement_phase: it classifies whatever the
\* observed range is.
MovementIgnoringRange(phase, current2, angle_range, velocity, recent_values) ==
    MovementStateMachine(phase, current2, velocity, recent_values)

\* determine_movement_phase: the current phase when the observed range is
\* too small, the candidate of the state machine otherwise
determine_movement_phase(phase, current2, angle_range, velocity, recent_values) ==
    IF angle_range < thresholds_.min_angle_range THEN phase
    ELSE MovementStateMachine(phase, current2, velocity, recent_values)

\* A faulty variant of validate_phase_transition: a candidate quarter that
\* has consensus commits peak, whatever the table says.
TransitionSkippingQuarter(new_phase, buffer, phase, history, transitions) ==
    LET recent_phases == Tail_(buffer, thresholds_.phase_stability_frames)
    IN  IF Consensus(recent_phases, new_phase) /\ new_phase = "quarter" /\ phase = "start"
        THEN [phase |-> "peak",
              history |-> Push(history, "peak", ProfessionalHistoryMaxlen),
              transitions |-> transitions + 1]
        ELSE [phase |-> phase, history |-> history, transitions |-> transitions]

\* A faulty variant of validate_phase_transition: the committed phase is
\* not appended to the history.
TransitionForgettingHistory(new_phase, buffer, phase, history, transitions) ==
    LET recent_phases == Tail_(buffer, thresholds_.phase_stability_frames)
    IN  IF /\ Consensus(recent_phases, new_phase)
           /\ new_phase \in valid_transitions[phase]
           /\ new_phase # phase
        THEN [phase |-> new_phase, history |-> history, transitions |-> transitions + 1]
        ELSE [phase |-> phase, history |-> history, transitions |-> transitions]

\* Returns the committed phase, the history and the transition count
validate_phase_transition(new_phase, buffer, phase, history, transitions) ==
    LET recent_phases == Tail_(buffer, thresholds_.phase_stability_frames)
    IN  IF /\ Consensus(recent_phases, new_phase)
           /\ new_phase \in valid_transitions[phase]
           /\ new_phase # phase
        THEN [phase |-> new_phase,
              history |-> Push(history, new_phase, ProfessionalHistoryMaxlen),
              transitions |-> transitions + 1]
        ELSE [phase |-> phase, history |-> history, transitions |-> transitions]

\* A faulty variant of detect_rep_completion: no cooldown.
CompletionWithoutCooldown(timestamp, angle_range, phase, history, transitions, last) ==
    /\ phase = "end"
    /\ angle_range > thresholds_.min_angle_range
    /\ transitions >= 3
    /\ Len(history) >= 4

\* A faulty variant of detect_rep_completion: the transitions committed
\* since the last repetition are not asked for.
CompletionWithoutTransitions(timestamp, angle_range, phase, history, transitions, last) ==
    /\ phase = "end"
    /\ timestamp - last > thresholds_.rep_cooldown_seconds
    /\ angle_range > thresholds_.min_angle_range
    /\ Len(history) >= 4

\* timestamp - last_rep_time > rep_cooldown_seconds, in ticks of 1/30 s
detect_rep_completion(timestamp, angle_range, phase, history, transitions, last) ==
    /\ phase = "end"
    /\ timestamp - last > thresholds_.rep_cooldown_seconds
    /\ angle_range > thresholds_.min_angle_range
    /\ transitions >= 3
    /\ Len(history) >= 4

\* primary_values: values[-5:] of each primary channel, one after the other
PrimaryValues(recent_angles, primary_indices) ==
    LET n == Len(primary_indices)
        last5(i) == Tail_(Channel(recent_angles, primary_indices[i]), 5)
    IN  [k \in 1..(5 * n) |-> last5(((k - 1) \div 5) + 1)[((k - 1) % 5) + 1]]

\* np.argsort(range)[-2:]: the channels of the two largest ranges of a
\* pattern, the largest last (the ranges of a pattern differ)
LastTwoByRange(range) ==
    LET top == CHOOSE i \in 1..Len(range) : \A j \in 1..Len(range) : range[j] <= range[i]
        second == CHOOSE i \in 1..Len(range) \ {top} :
                      \A j \in 1..Len(range) \ {top} : range[j] <= range[i]
    IN  <<second, top>>

\* ProfessionalPoseCorrector.advanced_rep_detection on the state st
ProfessionalDetect(st, current_features, timestamp) ==
    IF current_features = NoFeatures \/ Len(st.angle_buffer) < ProfessionalWindow
    THEN [st EXCEPT !.outcome = "not_ready", !.reported = "start"]
    ELSE IF Has(st.name, "curl") \/ st.id = "xiA6lRr"
    THEN [st EXCEPT !.outcome = "not_ready"]
    ELSE
    LET buf == Push(st.angle_buffer, current_features, ProfessionalAngleMaxlen)
        recent_angles == Tail_(buf, ProfessionalWindow)
        appended == [st EXCEPT !.angle_buffer = buf]
    IN
    \* frame[idx] on a float entry raises TypeError, caught by the except clause
    IF \E i \in 1..Len(recent_angles) : IsFloat(recent_angles[i])
    THEN [appended EXCEPT !.outcome = "caught"]
    ELSE
    LET primary_indices == IF st.pattern = "None" THEN <<1, 2, 3, 4>>
                           ELSE LastTwoByRange(st.pattern)
        primary_values == PrimaryValues(recent_angles, primary_indices)
        velocities == [i \in 1..Len(primary_indices) |->
                          Velocity4(Channel(recent_angles, primary_indices[i]))]
        n == Len(primary_values)
        current2 == primary_values[n - 1] + primary_values[n]
        angle_range == SeqMax(primary_values) - SeqMin(primary_values)
        max_velocity == SeqMax(velocities)
        new_phase == determine_movement_phase(st.phase, current2, angle_range,
                                              max_velocity, primary_values)
        pbuf == Push(st.phase_buffer, new_phase, ProfessionalPhaseMaxlen)
        upd == IF Len(pbuf) >= thresholds_.phase_stability_frames
               THEN validate_phase_transition(new_phase, pbuf, st.phase, st.history,
                                              st.transitions)
               ELSE [phase |-> st.phase, history |-> st.history,
                     transitions |-> st.transitions]
        rep == detect_rep_completion(timestamp, angle_range, upd.phase, upd.history,
                                     upd.transitions, st.last_rep_time)
    IN  [appended EXCEPT
            !.phase_buffer = pbuf, !.phase = upd.phase, !.history = upd.history,
            !.holds = Push(st.holds, new_phase = st.phase, ProfessionalPhaseMaxlen),
            !.transitions = IF rep THEN 0 ELSE upd.transitions,
            !.rep_count = IF rep THEN IncrementRep(st.rep_count) ELSE st.rep_count,
            !.last_rep_time = IF rep THEN timestamp ELSE st.last_rep_time,
            !.candidate = new_phase, !.velocity = max_velocity, !.range = angle_range,
            !.position = MovementPosition(current2, primary_values),
            !.outcome = "ok"]

(***************************************************************************)
(* EnhancedAIPoseCorrector.                                                *)
(***************************************************************************)
EnhancedAngleMaxlen == 30
EnhancedPhaseMaxlen == 15
EnhancedWindow == 10
EnhancedPositionWindow == 15

\* self.rep_thresholds: the cooldown in frames of 1/30 s
rep_thresholds ==
    [min_angle_range |-> 25, phase_stability |-> 3, rep_cooldown |-> 15]

\* abs(values[-1] - values[-3]) / 2, in hundredths
Velocity2(values) ==
    IF Len(values) >= 3 THEN 50 * Abs(values[Len(values)] - values[Len(values) - 2]) ELSE 0

\* The candidate enhanced_rep_detection derives from the committed phase,
\* the position in the range and the velocity
EnhancedPhase(phase, position, velocity) ==
    CASE phase = "start" ->
            IF PosAbove(position, 20) /\ velocity > 200 THEN "quarter" ELSE phase
      [] phase = "quarter" ->
            IF PosAbove(position, 60) /\ velocity > 150 THEN "peak"
            ELSE IF PosBelow(position, 15) /\ velocity < 200 THEN "start"
            ELSE phase
      [] phase = "peak" ->
            IF PosBelow(position, 70) /\ velocity > 100 THEN "return" ELSE phase
      [] phase = "return" ->
            IF PosBelow(position, 20) /\ velocity < 200 THEN "end"
            ELSE IF PosAbove(position, 60) THEN "peak"
            ELSE phase
      [] phase = "end" ->
            IF velocity < 100 /\ PosBelow(position, 15) THEN "end"
            ELSE IF velocity > 200 /\ PosAbove(position, 15) THEN "start"
            ELSE phase
      [] OTHER -> phase

\* The transition table of enhanced_rep_detection
enhanced_valid_transitions ==
    [start |-> {"quarter"}, quarter |-> {"peak", "start"}, peak |-> {"return"},
     return |-> {"end", "peak"}, end |-> {"start"}]

\* EnhancedAIPoseCorrector.enhanced_rep_detection on the state st, whose
\* last_rep_time field holds last_peak_time: the state after the call.  The
\* rep is counted where the candidate is derived, before the candidate goes
\* through the stability check.
EnhancedDetect(st, current_angles, timestamp) ==
    IF current_angles = NoFeatures \/ Len(st.angle_buffer) < EnhancedWindow
    THEN [st EXCEPT !.outcome = "not_ready", !.reported = "start"]
    ELSE
    LET buf == Push(st.angle_buffer, current_angles, EnhancedAngleMaxlen)
        recent_angles == Tail_(buf, EnhancedWindow)
        angle_ranges == [i \in 1..4 |->
                            LET values == Channel(recent_angles, i)
                            IN  SeqMax(values) - SeqMin(values)]
        angle_velocities == [i \in 1..4 |-> Velocity2(Channel(recent_angles, i))]
        max_range_idx == ArgMax(angle_ranges)
        primary_angle_val == current_angles[max_range_idx]
        max_velocity == SeqMax(angle_velocities)
        recent_vals == Channel(Tail_(buf, EnhancedPositionWindow), max_range_idx)
        min_val == SeqMin(recent_vals)
        range_val == SeqMax(recent_vals) - min_val
        classify == /\ Len(buf) >= EnhancedPositionWindow
                    /\ range_val > rep_thresholds.min_angle_range
        position == IF range_val > 0
                    THEN [num |-> primary_angle_val - min_val, den |-> range_val]
                    ELSE [num |-> 1, den |-> 2]
        new_phase == IF classify THEN EnhancedPhase(st.phase, position, max_velocity)
                     ELSE st.phase
        counted == /\ classify
                   /\ st.phase = "end"
                   /\ new_phase = "start"
                   /\ timestamp - st.last_rep_time > rep_thresholds.rep_cooldown
        pbuf == Push(st.phase_buffer, new_phase, EnhancedPhaseMaxlen)
        recent_phases == Tail_(pbuf, rep_thresholds.phase_stability)
        commit == /\ Len(pbuf) >= rep_thresholds.phase_stability
                  /\ Consensus(recent_phases, new_phase)
                  /\ new_phase # st.phase
                  /\ new_phase \in enhanced_valid_transitions[st.phase]
    IN  [st EXCEPT
            !.angle_buffer = buf, !.phase_buffer = pbuf,
            !.holds = Push(st.holds, new_phase = st.phase, EnhancedPhaseMaxlen),
            !.phase = IF commit THEN new_phase ELSE st.phase,
            !.rep_count = IF counted THEN IncrementRep(st.rep_count) ELSE st.rep_count,
            !.last_rep_time = IF counted THEN timestamp ELSE st.last_rep_time,
            !.candidate = new_phase, !.velocity = max_velocity, !.position = position,
            !.range = range_val,
            \* the message of a committed change reads list(phase_buffer)[-4]
            !.outcome = IF commit /\ Len(pbuf) < 4 THEN "caught" ELSE "ok"]

\* The phase sequence both quality scores compare the history with
expected_sequence == <<"start", "quarter", "peak", "return", "end">>

\* The positions at which the phases, five at most, are the expected ones
SequenceMatches(recent_phases) ==
    Cardinality({i \in 1..Len(recent_phases) : recent_phases[i] = expected_sequence[i]})

\* The sequence term of ComprehensivePoseCorrector.calculate_movement_quality
\* over phase_history_buffer, in tenths: matches / 5 over the last five
\* phases, 0.5 while the history holds fewer than five
sequence_quality(history) ==
    IF Len(history) >= 5 THEN 2 * SequenceMatches(Tail_(history, 5)) ELSE 5

\* The sequence term of ProfessionalPoseCorrector.calculate_phase_confidence
\* over phase_history, in tenths: matches / 5 over the last five phases, 0.5
\* while the history holds fewer than four
sequence_score(history) ==
    IF Len(history) >= 4 THEN 2 * SequenceMatches(Tail_(history, 5)) ELSE 5

(***************************************************************************)
(* EnhancedRepCounter (enhanced_rep_counter.py).                           *)
(***************************************************************************)
CounterAngleMaxlen == 30
CounterPhaseMaxlen == 5
CounterHistoryMaxlen == 10
CounterWindow == 15

\* The minimum of 1.5 seconds between two reps, in ticks
CounterCooldown == 45

\* The phase enhanced_rep_detection reads off the more bent elbow
CounterPhase(primary_angle) ==
    IF primary_angle > 160 THEN "start"
    ELSE IF primary_angle > 120 THEN "quarter"
    ELSE IF primary_angle < 60 THEN "peak"
    ELSE IF primary_angle < 100 THEN "return"
    ELSE "end"

\* EnhancedRepCounter.enhanced_rep_detection on the state st.  most_common is
\* the value max() returns on this call; the result is marked possible when
\* it is one of the most common phases of the buffer.
CounterDetect(st, angles, timestamp, most_common) ==
    IF angles = NoFeatures THEN SkipFrame(st, "no_features")
    ELSE
    LET primary_angle == Min2(angles[1], angles[2])
        buf == Push(st.angle_buffer, <<primary_angle>>, CounterAngleMaxlen)
        appended == [st EXCEPT !.angle_buffer = buf]
    IN
    IF Len(buf) < CounterWindow THEN [appended EXCEPT !.outcome = "filling"]
    ELSE
    LET recent_angles == Tail_(buf, CounterWindow)
        values == [i \in 1..Len(recent_angles) |-> recent_angles[i][1]]
        angle_range == SeqMax(values) - SeqMin(values)
        new_phase == CounterPhase(primary_angle)
        pbuf == Push(st.phase_buffer, new_phase, CounterPhaseMaxlen)
        change == Len(pbuf) >= 3 /\ most_common # st.phase
        phase == IF change THEN most_common ELSE st.phase
        history == IF change THEN Push(st.history, most_common, CounterHistoryMaxlen)
                   ELSE st.history
        is_good_rep == /\ phase = "start"
                       /\ timestamp - st.last_rep_time > CounterCooldown
                       /\ angle_range > 70
                       /\ \E i \in 1..Len(history) : history[i] \in {"peak", "return"}
    IN  [appended EXCEPT
            !.phase_buffer = pbuf, !.phase = phase,
            !.holds = Push(st.holds, new_phase = st.phase, CounterPhaseMaxlen),
            !.candidate = new_phase, !.range = angle_range,
            !.possible = Len(pbuf) < 3 \/ most_common \in MostCommon(pbuf),
            !.rep_count = IF is_good_rep THEN IncrementRep(st.rep_count) ELSE st.rep_count,
            !.last_rep_time = IF is_good_rep THEN timestamp ELSE st.last_rep_time,
            \* the history is cleared for the next rep
            !.history = IF is_good_rep THEN <<>> ELSE history,
            !.outcome = "ok"]

(***************************************************************************)
(* The callers.  Spec is the program from its constructors: every driver   *)
(* in Drivers starts from the state __init__ leaves.  "comprehensive" and  *)
(* "enhanced" are the main loops of ComprehensivePoseCorrector and         *)
(* EnhancedAIPoseCorrector: advanced_rep_detection and                     *)
(* enhanced_rep_detection return before they append while angle_buffer     *)
(* holds fewer than 15 (10) frames, so from the constructor the buffer     *)
(* stays empty and the classifier below that guard is never entered.       *)
(*                                                                         *)
(* The "professional_..." drivers call the methods of a constructed        *)
(* ProfessionalPoseCorrector: 15 calls of universal_rep_detection at rest  *)
(* fill angle_buffer, then advanced_rep_detection is called frame by frame *)
(* (its first 14 calls end in the except clause, the window still holding  *)
(* floats), now and then with an empty feature list.  They differ in the   *)
(* frames that follow: "professional_advanced" moves freely between 60 and *)
(* 170 degrees, "professional_cycle" repeats one cycle of 16 frames,       *)
(* "professional_small" moves by 10 degrees, "professional_restart" walks  *)
(* to return and then moves freely between 60, 65 and 170 degrees, and     *)
(* "professional_pattern" moves the knees after set_target_exercise has    *)
(* bound an id that has a reference pattern.  "professional_api" is the    *)
(* path of pose_corrector_api.py: the WebSocket binds an exercise by name  *)
(* and sends frames to process_frame.                                      *)
(*                                                                         *)
(* FunctionSpec is determine_exercise_phase of ComprehensivePoseCorrector  *)
(* taken as a function: it reads its arguments and self.current_phase and  *)
(* assigns nothing.  Its driver "classifier" draws the committed phase     *)
(* from the five phases and the arguments from bounded sets.               *)
(***************************************************************************)
Drivers == {"comprehensive", "enhanced", "professional_advanced", "professional_pattern",
            "professional_cycle", "professional_small", "professional_restart",
            "professional_api",
            "api_session", "api_curl", "api_summary", "api_generic",
            "rep_counter"}

\* The drivers that call advanced_rep_detection of ProfessionalPoseCorrector
ProfessionalDrivers == {"professional_advanced", "professional_pattern",
                        "professional_cycle", "professional_small",
                        "professional_restart"}

\* The drivers of EnhancedAIPoseCorrector
EnhancedDrivers == {"enhanced"}

\* The frames a driver passes before its poses are free
Warmup(d) ==
    CASE d = "comprehensive"         -> ComprehensiveWindow
      [] d \in ProfessionalDrivers   -> ProfessionalWindow + ProfessionalWindow - 1
      [] d = "professional_api"      -> UniversalWindow - 1
      [] d = "api_session"           -> UniversalWindow - 1
      [] d = "api_summary"           -> UniversalWindow - 1
      [] d = "api_generic"           -> UniversalWindow - 1
      [] d = "api_curl"              -> UniversalWindow - 1

ApiAngles == {170, 60}

\* One steady curl at 10 degrees a frame: the elbow angle goes from 160 down
\* to 60 and back up to 170
CurlSweep == [k \in 1..22 |-> IF k <= 11 THEN 170 - 10 * k ELSE 10 * k - 50]

\* The elbow angle on frame k of curls performed one after another
CurlAngle(k) == CurlSweep[((k - 1) % Len(CurlSweep)) + 1]

\* One curl at 10 degrees a frame with a pause of three frames at rest: the
\* elbow angle goes from 70 up to 170, back down to 60, and stays
EnhancedSweep == [k \in 1..25 |-> IF k <= 11 THEN 60 + 10 * k
                                  ELSE IF k <= 22 THEN 280 - 10 * k ELSE 60]

\* The elbow angle on frame k of such curls performed one after another
EnhancedAngle(k) == EnhancedSweep[((k - 1) % Len(EnhancedSweep)) + 1]

\* The cycle "professional_cycle" repeats: the arm swings between 60 and 170
\* degrees so that advanced_rep_detection commits quarter, peak, return and
\* end on its frames 3, 10, 12 and 16
CycleSweep == <<60, 170, 170, 60, 170, 60, 170, 170, 170, 170, 60, 60, 170, 60, 60, 60>>

\* The joint angle on frame k of that cycle performed again and again
CycleAngle(k) == CycleSweep[((k - 1) % Len(CycleSweep)) + 1]

\* The frames that take "professional_restart" to return, and the angles of
\* the frames that follow
RestartFrames == <<170, 170, 170, 170, 60, 60, 170>>
RestartAngles == {60, 65, 170}

\* The angles of a movement of 10 degrees
SmallAngles == {60, 70}

\* data['correct_mapping'] of the exercise database: exercise id -> name
exercise_mapping ==
    [x \in {"xiA6lRr", "SLKj2pX"} |->
        IF x = "xiA6lRr" THEN "dumbbell seated bicep curl" ELSE "cocoons"]

\* The state the constructor of the class of driver d leaves, phase being
\* current_phase.  EnhancedRepCounter binds its exercise in the constructor.
Constructed(d, phase) ==
    /\ driver = d
    /\ now = IF d = "rep_counter" THEN CounterCooldown + 1 ELSE Horizon
    /\ frames = 0
    /\ outcome = "none"
    /\ angle_buffer = <<>>
    /\ phase_buffer = <<>>
    /\ vote_holds = <<>>
    /\ fresh_votes = 0
    /\ phase_history = <<>>
    /\ rep_count = 0
    /\ current_phase = phase
    /\ reported_phase = phase
    /\ last_rep_time = 0
    /\ phase_transition_count = 0
    /\ target_exercise_pattern = "None"
    /\ current_exercise_id = IF d = "rep_counter" THEN "xiA6lRr" ELSE "None"
    /\ current_exercise_name = IF d \in {"comprehensive", "classifier"} THEN "unknown"
                               ELSE IF d = "rep_counter" THEN exercise_mapping["xiA6lRr"]
                               ELSE "No exercise selected"
    /\ current_category = "general"
    /\ seen_peak = FALSE
    /\ pause_seen = FALSE
    /\ observed_range = 0
    /\ classified = [candidate |-> phase, position |-> [num |-> 1, den |-> 2],
                     velocity |-> 0]
    /\ rep_due = FALSE
    /\ session_start_time = "set"
    /\ client = 0
    /\ loop_holder = "none"
    /\ returned = "none"
    /\ controls = 0
    /\ repeated = FALSE

\* The program: the object as its constructor leaves it, current_phase = "start"
Init == \E d \in Drivers : Constructed(d, "start")

\* The categories of load_exercise_thresholds and get_primary_angles_for_exercise
Categories == {"general", "upper_body", "lower_body", "core", "cardio"}

\* identify_exercise: the best match over self.exercise_angle_patterns, with
\* its similarity in hundredths.  The patterns are read from data/angles,
\* which the sources do not hold: load_exercise_database falls back to an
\* empty exercise_angle_patterns, and the loop over it finds nothing.
identify_exercise(pose_features) ==
    [name |-> "unknown", similarity |-> 0, category |-> "general"]

\* ComprehensivePoseCorrector.process_frame with landmarks: identify_exercise,
\* the update of the exercise context, and one call of
\* advanced_rep_detection(pose_features, time.time())
ComprehensiveFrame ==
    /\ driver = "comprehensive"
    /\ frames < Warmup(driver) + MaxFrames
    /\ \E a \in Angles, dt \in Delays :
          LET timestamp == Clock(dt)
              found == identify_exercise(Pose(a))
              update == found.similarity > 70 /\ found.name # current_exercise_name
              context == IF update
                         THEN [Session EXCEPT !.name = found.name,
                                              !.category = found.category]
                         ELSE Session
          IN  \E st \in {ComprehensiveDetect(context, Pose(a), timestamp)} :
              /\ now' = timestamp
              /\ frames' = frames + 1
              /\ current_exercise_name' = context.name
              /\ current_category' = context.category
              /\ Store(st)
              /\ Observe(st, 15)
    /\ UNCHANGED <<driver, current_exercise_id, apivars>>

\* ComprehensivePoseCorrector.process_frame without landmarks
ComprehensiveNoLandmarks ==
    /\ driver = "comprehensive"
    /\ Store(SkipFrame(Session, "no_landmarks"))
    /\ rep_due' = FALSE
    /\ UNCHANGED <<driver, now, frames, current_exercise_id, current_exercise_name,
                   current_category, seen_peak, pause_seen, observed_range, classified,
                   apivars>>

\* main() of comprehensive_pose_corrector.py, key 'r' between two frames
ComprehensiveResetKey ==
    /\ driver = "comprehensive"
    /\ Store([Session EXCEPT !.rep_count = 0, !.outcome = "rep_reset"])
    /\ rep_due' = FALSE
    /\ UNCHANGED <<driver, now, frames, current_exercise_id, current_exercise_name,
                   current_category, seen_peak, pause_seen, observed_range, classified,
                   apivars>>

\* The arguments "classifier" passes to determine_exercise_phase: the angle
\* of the current frame, the velocity in hundredths, and the top of the
\* trailing window, whose other frames are at rest
ClassifierAngles == {60, 70, 75, 80, 85, 90, 120, 125, 130, 135, 160}
ClassifierVelocities == {0, 75, 100, 125, 150, 175}
ClassifierTops == {70, 160}

\* A window of 15 frames: one at the top, 13 at rest, the current frame last
ClassifierWindow(top, a) ==
    [k \in 1..ComprehensiveWindow |->
        IF k = 1 THEN Pose(top) ELSE IF k = ComprehensiveWindow THEN Pose(a) ELSE Pose(60)]

\* The inputs of determine_exercise_phase that are not arguments: the function
\* reads self.current_phase, drawn here from the five phases, and no other
\* field
FunctionInit == \E phase \in Phases : Constructed("classifier", phase)

\* One call of determine_exercise_phase, with the arguments
\* advanced_rep_detection derives from the window: the channel of largest
\* range, its range, and the angle of the current frame in it
Classify ==
    /\ driver = "classifier"
    /\ frames < MaxClassifications
    /\ \E top \in ClassifierTops, a \in ClassifierAngles, velocity \in ClassifierVelocities :
          LET recent_angles == ClassifierWindow(top, a)
              thresholds == category_thresholds(current_category)
              angle_idx == get_primary_angles_for_exercise(current_category)[1]
              values == Channel(recent_angles, angle_idx)
              angle_range == SeqMax(values) - SeqMin(values)
              primary_angle == Pose(a)[angle_idx]
              new_phase == determine_exercise_phase(current_phase, primary_angle, velocity,
                               angle_range, thresholds, recent_angles, angle_idx)
          IN  /\ classified' = [candidate |-> new_phase,
                                position |-> WindowPosition(primary_angle, recent_angles,
                                                            angle_idx),
                                velocity |-> velocity]
              /\ observed_range' = angle_range
              /\ frames' = frames + 1
              /\ outcome' = "ok"
    /\ UNCHANGED <<driver, now, angle_buffer, phase_buffer, phase_history, rep_count,
                   current_phase, reported_phase, last_rep_time, phase_transition_count,
                   target_exercise_pattern, current_exercise_id, current_exercise_name,
                   current_category, seen_peak, pause_seen, vote_holds, fresh_votes,
                   rep_due, apivars>>

\* What get_exercise_match can return: "unknown" with confidence 0.5 when
\* no reference data is loaded, or the name of a reference exercise with a
\* similarity above 0.7
ExerciseMatches ==
    {[match |-> "unknown", sure |-> FALSE],
     [match |-> exercise_mapping["xiA6lRr"], sure |-> TRUE]}

\* EnhancedAIPoseCorrector.analyze_frame with landmarks and features: one
\* call of enhanced_rep_detection(pose_features, time.time()), then the
\* exercise is matched while none is detected
EnhancedFrame ==
    /\ driver \in EnhancedDrivers
    /\ frames < MaxEnhancedFrames
    /\ \E found \in ExerciseMatches :
          LET timestamp == Clock(1)
          IN  \E st \in {EnhancedDetect(Session, Pose(EnhancedAngle(frames + 1)), timestamp)} :
              /\ now' = timestamp
              /\ frames' = frames + 1
              /\ current_exercise_id' = IF current_exercise_id = "None" /\ found.sure
                                        THEN found.match ELSE current_exercise_id
              /\ Store(st)
              /\ Observe(st, 15)
    /\ UNCHANGED <<driver, current_exercise_name, current_category, apivars>>

\* main() of enhanced_ai_pose_corrector.py, key 'r' between two frames
EnhancedResetKey ==
    /\ driver \in EnhancedDrivers
    /\ Store([Session EXCEPT !.rep_count = 0, !.outcome = "rep_reset"])
    /\ rep_due' = FALSE
    /\ UNCHANGED <<driver, now, frames, current_exercise_id, current_exercise_name,
                   current_category, seen_peak, pause_seen, observed_range, classified,
                   apivars>>

\* main() of enhanced_ai_pose_corrector.py, key 'e' between two frames
EnhancedExerciseKey ==
    /\ driver \in EnhancedDrivers
    /\ current_exercise_id' = "None"
    /\ Store([Session EXCEPT !.outcome = "exercise_reset"])
    /\ rep_due' = FALSE
    /\ UNCHANGED <<driver, now, frames, current_exercise_name,
                   current_category, seen_peak, pause_seen, observed_range, classified,
                   apivars>>

\* The elbow angles the frames of "rep_counter" take when the window is
\* full: extended, half bent, fully bent
CounterAngles == {170, 80, 50}

\* EnhancedRepCounter.process_frame: enhanced_rep_detection(angles) when the
\* features were extracted; a frame without them leaves the state alone.
\* The arm is extended while the window of 15 frames fills.
CounterFrame ==
    /\ driver = "rep_counter"
    /\ frames < CounterWindow - 1 + MaxCounterFrames
    /\ \E features \in {Pose(a) : a \in IF frames < CounterWindow - 1 THEN {170}
                                         ELSE CounterAngles}
                        \cup (IF outcome = "no_features" THEN {} ELSE {NoFeatures}),
          pick \in Phases :
          LET timestamp == IF features = NoFeatures THEN now ELSE now + 1
          IN  \E st \in {CounterDetect(Session, features, timestamp, pick)} :
              /\ st.possible
              /\ now' = timestamp
              /\ frames' = IF features = NoFeatures THEN frames ELSE frames + 1
              /\ Store(st)
              /\ Observe(st, 15)
    /\ UNCHANGED <<driver, current_exercise_id, current_exercise_name, current_category,
                   apivars>>

\* self.exercise_patterns, built by load_exercise_database from
\* data/angles/<id>.csv: the 'range' of the eight angles over the reference
\* recording of an exercise, for the ids that have one.  The recording of
\* "SLKj2pX" moves the knees most.
exercise_patterns ==
    [x \in {"SLKj2pX"} |-> <<1, 2, 3, 4, 5, 6, 80, 90>>]

\* self.exercise_patterns.get(exercise_id)
PatternOf(exercise_id) ==
    IF exercise_id \in DOMAIN exercise_patterns THEN exercise_patterns[exercise_id]
    ELSE "None"

\* The exercise ids the clients ask for; the second is the id the WebSocket
\* derives from the name "bicep curl", which the database does not hold
RequestedIds == {"xiA6lRr", "bicep_curl_001"}

\* A faulty variant: the session is cleared for an id the database lacks
SetTargetClearingAlways(st, exercise_id) ==
    LET known == exercise_id \in DOMAIN exercise_mapping
        cleared == [st EXCEPT !.rep_count = 0, !.phase = "start", !.phase_buffer = <<>>,
                              !.holds = <<>>,
                              !.history = <<>>, !.last_rep_time = 0]
    IN  [ok |-> known,
         st |-> IF known
                THEN [cleared EXCEPT !.id = exercise_id,
                                     !.name = exercise_mapping[exercise_id],
                                     !.pattern = PatternOf(exercise_id)]
                ELSE cleared]

\* ProfessionalPoseCorrector.set_target_exercise: ok is the value returned,
\* st the state left.  angle_buffer is not among the fields it clears.
set_target_exercise(st, exercise_id) ==
    IF exercise_id \in DOMAIN exercise_mapping
    THEN [ok |-> TRUE,
          st |-> [st EXCEPT !.id = exercise_id, !.name = exercise_mapping[exercise_id],
                            !.pattern = PatternOf(exercise_id),
                            !.rep_count = 0, !.phase = "start", !.phase_buffer = <<>>,
                            !.holds = <<>>,
                            !.history = <<>>, !.last_rep_time = 0]]
    ELSE [ok |-> FALSE, st |-> st]

\* The caller of "professional_pattern" binds the exercise first
PatternBind ==
    /\ driver = "professional_pattern"
    /\ current_exercise_id = "None"
    /\ \E r \in {set_target_exercise(Session, "SLKj2pX")} :
          /\ Store([r.st EXCEPT !.outcome = "bound"])
          /\ current_exercise_id' = r.st.id
          /\ current_exercise_name' = r.st.name
    /\ rep_due' = FALSE
    /\ UNCHANGED <<driver, now, frames, current_category, seen_peak, pause_seen,
                   observed_range, classified, apivars>>

\* The exercise of a driver is bound
Bound == driver = "professional_pattern" => current_exercise_id # "None"

\* The caller fills angle_buffer through universal_rep_detection, at rest;
\* a call with empty features is not a frame of the window
ProfessionalWarmup ==
    /\ driver \in ProfessionalDrivers
    /\ Bound
    /\ frames < ProfessionalWindow
    /\ \E pick \in Phases, features \in {Pose(60), NoFeatures} :
          LET timestamp == IF features = NoFeatures THEN now ELSE Clock(1)
          IN  \E st \in {UniversalDetect(Session, features, timestamp, pick)} :
              /\ st.possible
              /\ now' = timestamp
              /\ frames' = IF features = NoFeatures THEN frames ELSE frames + 1
              /\ Store(st)
              /\ Observe(st, 20)
    /\ UNCHANGED <<driver, current_exercise_id, current_exercise_name, current_category,
                   apivars>>

\* The free frames of a driver of advanced_rep_detection
ProfessionalFrames(d) ==
    CASE d = "professional_pattern" -> MaxPatternFrames
      [] d = "professional_cycle"   -> MaxCycleFrames
      [] d = "professional_small"   -> MaxSmallFrames
      [] d = "professional_restart" -> Len(RestartFrames) + MaxRestartFrames
      [] OTHER                      -> MaxProFrames

\* The features frame number n of a driver can show: at rest until the
\* window holds 15 feature lists, then the driver's movement
ProfessionalFeatures(d, n) ==
    LET k == n - Warmup(d)
    IN  CASE d = "professional_pattern" ->
                {KneePose(a) : a \in IF k <= 0 THEN {170} ELSE Angles}
          [] k <= 0                     -> {Pose(60)}
          [] d = "professional_cycle"   -> {Pose(CycleAngle(k))}
          [] d = "professional_small"   -> {Pose(a) : a \in SmallAngles}
          [] d = "professional_restart" ->
                IF k <= Len(RestartFrames) THEN {Pose(RestartFrames[k])}
                ELSE {Pose(a) : a \in RestartAngles}
          [] OTHER                      -> {Pose(a) : a \in Angles}

\* time.time() between two frames of a driver
ProfessionalDelays(d) ==
    IF d \in {"professional_advanced", "professional_cycle"} THEN Delays ELSE {1}

\* One call of ProfessionalPoseCorrector.advanced_rep_detection
ProfessionalFrame ==
    /\ driver \in ProfessionalDrivers
    /\ frames >= ProfessionalWindow
    /\ frames < Warmup(driver) + ProfessionalFrames(driver)
    /\ \E features \in ProfessionalFeatures(driver, frames + 1),
          dt \in ProfessionalDelays(driver) :
          LET timestamp == Clock(dt)
          IN  \E st \in {ProfessionalDetect(Session, features, timestamp)} :
              /\ now' = timestamp
              /\ frames' = frames + 1
              /\ Store(st)
              /\ Observe(st, 20)
    /\ UNCHANGED <<driver, current_exercise_id, current_exercise_name, current_category,
                   apivars>>

\* advanced_rep_detection called with an empty feature list between two
\* frames: the not-ready result, nothing assigned
ProfessionalEmptyFrame ==
    /\ driver \in ProfessionalDrivers
    /\ frames >= ProfessionalWindow
    /\ outcome # "not_ready"
    /\ \E st \in {ProfessionalDetect(Session, NoFeatures, now)} : Store(st)
    /\ rep_due' = FALSE
    /\ UNCHANGED <<driver, now, frames, current_exercise_id, current_exercise_name,
                   current_category, seen_peak, pause_seen, observed_range, classified,
                   apivars>>

(***************************************************************************)
(* pose_corrector_api.py.  One ProfessionalPoseCorrector, built when the   *)
(* module is imported, serves every request and every WebSocket            *)
(* connection.  uvicorn runs the handlers as coroutines of one event loop: *)
(* a handler keeps the loop from the message it received to its next       *)
(* await.  "api_session" is two connected clients, the first of which has  *)
(* sent the frames that fill the window once an exercise is bound;         *)
(* "api_curl" is one client that binds "bicep curl" and performs one       *)
(* steady curl; "api_summary" is one client of the REST routes whose arm is *)
(* bent in every frame after the window; "api_generic" is one client that  *)
(* binds "cocoons", a name none of the keywords of universal_rep_detection *)
(* matches, and bends the arm after the window.                            *)
(***************************************************************************)
ApiDrivers == {"professional_api", "api_session", "api_curl", "api_summary",
               "api_generic"}

\* The drivers that send resets and bindings to a running session
SessionDrivers == {"api_session", "api_summary"}

Clients == {1, 2}

\* The clients of a driver
ClientsOf(d) == IF d = "api_session" THEN Clients ELSE {1}

\* A faulty variant: handlers start whatever runs on the loop, as threads would
AlwaysFree == TRUE

\* The event loop is between two handlers
LoopFree == loop_holder = "none"

\* A faulty variant: a reset that drops the last committed phase only
ResetDroppingLast(st) ==
    [st EXCEPT !.rep_count = 0, !.phase = "start",
               !.history = IF st.history = <<>> THEN <<>>
                           ELSE SubSeq(st.history, 1, Len(st.history) - 1)]

\* What POST /api/reset and the WebSocket message 'reset' assign on the
\* corrector: rep_count, phase_history and current_phase
reset_fields(st) ==
    [st EXCEPT !.rep_count = 0, !.history = <<>>, !.phase = "start"]

\* The control operations a driver allows
ControlAllowed ==
    /\ driver \in ApiDrivers
    /\ LoopFree
    /\ \/ current_exercise_id = "None"
       \/ driver \in SessionDrivers /\ controls < MaxControls

\* What a handler that calls no detection leaves alone; again tells that the
\* message repeats the reset handled before it
ControlFrame(c, again, result) ==
    /\ client' = c
    /\ returned' = result
    /\ controls' = IF current_exercise_id = "None" THEN controls ELSE controls + 1
    /\ rep_due' = FALSE
    /\ repeated' = again
    /\ UNCHANGED <<driver, now, frames, current_category, seen_peak, pause_seen,
                   observed_range, classified, loop_holder>>

\* POST /api/start-exercise: set_target_exercise, whose result is dropped
ApiStartExercise ==
    /\ driver \in SessionDrivers
    /\ ControlAllowed
    /\ \E c \in ClientsOf(driver), exercise_id \in RequestedIds :
          LET r == set_target_exercise(Session, exercise_id)
          IN  /\ Store([r.st EXCEPT !.outcome = "started"])
              /\ current_exercise_id' = r.st.id
              /\ current_exercise_name' = r.st.name
              /\ ControlFrame(c, FALSE, IF r.ok THEN "True" ELSE "False")
    /\ UNCHANGED session_start_time

\* POST /api/reset, answered with status "reset" (here "session_reset")
ApiResetSession ==
    /\ driver \in SessionDrivers
    /\ ControlAllowed
    /\ \E c \in ClientsOf(driver) :
          /\ Store([reset_fields(Session) EXCEPT !.outcome = "session_reset", !.fresh = 0])
          /\ ControlFrame(c, outcome = "session_reset", "none")
    /\ session_start_time' = "None"
    /\ UNCHANGED <<current_exercise_id, current_exercise_name>>

\* WebSocket message 'set_exercise' with exercise_id
ApiSetExerciseById ==
    /\ driver = "api_session"
    /\ ControlAllowed
    /\ \E c \in ClientsOf(driver), exercise_id \in RequestedIds :
          LET r == set_target_exercise(Session, exercise_id)
          IN  /\ Store([r.st EXCEPT !.outcome = "exercise_set"])
              /\ current_exercise_id' = r.st.id
              /\ current_exercise_name' = r.st.name
              /\ ControlFrame(c, FALSE, IF r.ok THEN "True" ELSE "False")
    /\ UNCHANGED session_start_time

\* The exercise names a driver's client sends
BindableNames(d) == IF d = "api_generic" THEN {"cocoons"} ELSE {"bicep curl"}

\* exercise_name.lower().replace(' ', '_') + '_001'
GeneratedId(name) == IF name = "cocoons" THEN "cocoons_001" ELSE "bicep_curl_001"

\* WebSocket message 'set_exercise' with exercise_name
ApiSetExerciseByName ==
    /\ ControlAllowed
    /\ \E c \in ClientsOf(driver), name \in BindableNames(driver) :
          /\ current_exercise_name' = name
          /\ current_exercise_id' = GeneratedId(name)
          /\ Store([Session EXCEPT !.outcome = "exercise_set"])
          /\ ControlFrame(c, FALSE, "none")
    /\ UNCHANGED session_start_time

\* WebSocket message 'reset', answered with type "reset"
ApiWsReset ==
    /\ driver = "api_session"
    /\ ControlAllowed
    /\ \E c \in ClientsOf(driver) :
          /\ Store([reset_fields(Session) EXCEPT !.outcome = "reset", !.fresh = 0])
          /\ ControlFrame(c, outcome = "reset", "none")
    /\ UNCHANGED <<session_start_time, current_exercise_id, current_exercise_name>>

\* ProfessionalPoseCorrector.get_session_summary: time.time() -
\* self.session_start_time raises TypeError when session_start_time is None
get_session_summary(start) == IF start = "None" THEN "raised" ELSE "summary"

\* GET /api/session-summary: the summary with status "success", or
\* HTTPException 500 "Failed to get summary" when the corrector raises
ApiSessionSummary ==
    /\ driver = "api_summary"
    /\ ControlAllowed
    /\ \E c \in ClientsOf(driver) :
          /\ Store([Session EXCEPT
                       !.outcome = IF get_session_summary(session_start_time) = "raised"
                                   THEN "summary_failed" ELSE "summary"])
          /\ ControlFrame(c, FALSE, "none")
    /\ UNCHANGED <<session_start_time, current_exercise_id, current_exercise_name>>

\* The free frames of a driver of the API
ApiFrames(d) ==
    CASE d = "api_session" -> MaxSessionFrames
      [] d = "api_summary" -> MaxSummaryFrames
      [] d = "api_generic" -> MaxGenericFrames
      [] d = "api_curl"    -> MaxApiCurls * Len(CurlSweep)
      [] OTHER             -> MaxApiFrames

\* The elbow angles frame number n of a driver can show: the arm extended
\* until the window is full, then the driver's movement
FrameAngles(d, n) ==
    IF n <= Warmup(d) THEN {170}
    ELSE IF d = "api_curl" THEN {CurlAngle(n - Warmup(d))}
    ELSE IF d \in {"api_summary", "api_generic"} THEN {60}
    ELSE ApiAngles

\* ProfessionalPoseCorrector.process_frame on the state st: the detection
\* runs when the frame has landmarks, an exercise is bound and the features
\* were extracted; what the detection raises is caught
process_frame(st, landmarks, features, timestamp, most_common) ==
    IF landmarks /\ st.id # "None"
    THEN IF features # NoFeatures
         THEN UniversalDetect(st, features, timestamp, most_common)
         ELSE SkipFrame(st, "no_features")
    ELSE SkipFrame(st, IF landmarks THEN "no_analysis" ELSE "no_landmarks")

\* WebSocket message 'frame', up to the response: process_frame runs on the
\* event loop without an await
ApiFrame ==
    /\ driver \in ApiDrivers
    /\ LoopFree
    /\ \E c \in (IF frames < Warmup(driver) THEN {1} ELSE ClientsOf(driver)) :
          /\ client' = c
          /\ \/ \E landmarks \in (IF current_exercise_id = "None" THEN BOOLEAN
                                   ELSE {FALSE}) :
                   \E st \in {process_frame(Session, landmarks, Pose(170), now, "start")} :
                       /\ Store(st)
                       /\ Observe(st, 20)
                       /\ UNCHANGED <<now, frames>>
             \/ /\ current_exercise_id # "None"
                /\ frames < Warmup(driver) + ApiFrames(driver)
                /\ \E a \in FrameAngles(driver, frames + 1),
                      dt \in Delays, pick \in Phases :
                      LET timestamp == Clock(dt)
                      IN  \E st \in {process_frame(Session, TRUE, Pose(a), timestamp, pick)} :
                          /\ st.possible
                          /\ now' = timestamp
                          /\ frames' = frames + 1
                          /\ Store(st)
                          /\ Observe(st, 20)
    /\ loop_holder' = "ws_frame"
    /\ repeated' = FALSE
    /\ returned' = "none"
    /\ UNCHANGED <<driver, current_exercise_id, current_exercise_name, current_category,
                   session_start_time, controls>>

\* WebSocket message 'frame', the response: rep_count and current_phase are
\* read into it and the handler awaits send_json, which frees the loop
ApiRespond ==
    /\ driver \in ApiDrivers
    /\ loop_holder = "ws_frame"
    /\ loop_holder' = "none"
    /\ UNCHANGED <<driver, now, frames, outcome, angle_buffer, phase_buffer, vote_holds,
                   fresh_votes, phase_history, rep_count, current_phase, reported_phase,
                   last_rep_time,
                   phase_transition_count, target_exercise_pattern,
                   current_exercise_id, current_exercise_name,
                   current_category, seen_peak, pause_seen, observed_range, classified,
                   rep_due, session_start_time, client, returned, controls, repeated>>

Next ==
    \/ ComprehensiveFrame
    \/ ComprehensiveNoLandmarks
    \/ ProfessionalWarmup
    \/ ProfessionalFrame
    \/ ProfessionalEmptyFrame
    \/ ApiStartExercise
    \/ ApiResetSession
    \/ ApiSetExerciseById
    \/ ApiSetExerciseByName
    \/ ApiWsReset
    \/ ApiFrame
    \/ ApiRespond
    \/ ApiSessionSummary
    \/ EnhancedFrame
    \/ CounterFrame
    \/ ComprehensiveResetKey
    \/ EnhancedResetKey
    \/ EnhancedExerciseKey
    \/ PatternBind

Spec == Init /\ [][Next]_vars

\* determine_exercise_phase applied to drawn inputs
FunctionNext == Classify

FunctionSpec == FunctionInit /\ [][FunctionNext]_vars

(***************************************************************************)
(* Properties.                                                             *)
(***************************************************************************)
\* The drivers of ComprehensivePoseCorrector, and those of the two engines
\* that commit phases through the transition table
ComprehensiveDrivers == {"comprehensive", "classifier"}
EngineDrivers == {"comprehensive"} \cup ProfessionalDrivers

\* The cooldown of a driver's profile, in ticks
Cooldown(d) ==
    IF d \in ComprehensiveDrivers THEN category_thresholds(current_category).rep_cooldown
    ELSE IF d \in EnhancedDrivers THEN rep_thresholds.rep_cooldown
    ELSE IF d = "rep_counter" THEN CounterCooldown
    ELSE thresholds_.rep_cooldown_seconds

\* The number of trailing candidates the consensus looks at
StabilityFrames(d) ==
    IF d \in ComprehensiveDrivers THEN exercise_thresholds.default.phase_stability
    ELSE thresholds_.phase_stability_frames

\* C1: across frame ingestions, no reset or exercise change among them,
\* rep_count never decreases and grows by at most 1 per ingested frame.
RepCountStepsByOne ==
    [][(frames' = frames + 1
          => (rep_count' >= rep_count /\ rep_count' <= rep_count + 1))]_vars

\* C1, its case: two repetitions counted, one frame each
TwoRepsCounted == driver = "professional_cycle" /\ rep_count = 2

RestartOnlyAfterPause ==
    [][(driver \in EngineDrivers /\ current_phase = "end" /\ current_phase' = "start"
          => pause_seen)]_vars

\* C4: every change of current_phase made by validate_and_update_phase or
\* validate_phase_transition follows an edge of the transition table.
PhaseChangesFollowTable ==
    [][(driver \in EngineDrivers /\ current_phase' # current_phase
          => current_phase' \in
                CASE current_phase = "start"   -> {"quarter"}
                  [] current_phase = "quarter" -> {"peak", "start"}
                  [] current_phase = "peak"    -> {"return"}
                  [] current_phase = "return"  -> {"end", "peak"}
                  [] current_phase = "end"     -> {"start"})]_vars

\* C4, its case: the whole cycle start, quarter, peak, return, end, start walked
CycleWalkedAlongTable ==
    /\ driver = "professional_cycle"
    /\ rep_count = 1
    /\ current_phase = "start"
    /\ phase_history = <<"quarter", "peak", "return", "end", "start">>

\* C5: on the path of the API the committed phase never goes from start
\* straight to peak.
ApiNeverSkipsQuarter ==
    [][(driver = "professional_api" /\ current_phase = "start"
          => current_phase' # "peak")]_vars

\* C6: in the two engines current_phase changes only to a candidate that occurs
\* at least 2 times among the last phase_stability candidates of phase_buffer.
ChangeNeedsTwoVotes ==
    [][(driver \in EngineDrivers /\ current_phase' # current_phase
          => Count(Tail_(phase_buffer', StabilityFrames(driver)), current_phase') >= 2)]_vars

\* C6, its case: the newest candidate differs from the committed phase, occurs
\* once among the last phase_stability candidates, and was not committed
LoneCandidateRejected ==
    /\ driver = "professional_advanced"
    /\ outcome = "ok"
    /\ Len(phase_buffer) >= StabilityFrames(driver)
    /\ phase_buffer[Len(phase_buffer)] # current_phase
    /\ Count(Tail_(phase_buffer, StabilityFrames(driver)),
             phase_buffer[Len(phase_buffer)]) = 1

\* C7: an increment of rep_count that follows another one comes more than the
\* profile's cooldown after it.
IncrementsCooldownApart ==
    [][(rep_count' > rep_count /\ rep_count >= 1
          => now' - last_rep_time > Cooldown(driver))]_vars

\* C7, its case: a frame ingested within the cooldown of the last repetition,
\* with a new cycle walked to end and the range large enough, and not counted
CompletionHeldByCooldown ==
    /\ driver = "professional_cycle"
    /\ outcome = "ok"
    /\ rep_count = 1
    /\ current_phase = "end"
    /\ phase_transition_count >= 3
    /\ Len(phase_history) >= 4
    /\ observed_range > thresholds_.min_angle_range
    /\ now > last_rep_time
    /\ now - last_rep_time <= Cooldown(driver)

\* The minimum range of a driver's profile
MinRange(d, category) ==
    IF d \in ComprehensiveDrivers THEN category_thresholds(category).min_angle_range
    ELSE thresholds_.min_angle_range

WindowFillsFromCalls ==
    driver = "comprehensive" /\ frames > ComprehensiveWindow => outcome # "not_ready"

\* C10: on the path of the API universal_rep_detection never raises, so that
\* process_frame returns an analysis for every frame with landmarks.
UniversalNeverRaises ==
    driver = "professional_api" => outcome # "raised"

\* C11: a call of universal_rep_detection that leaves current_phase at start
\* with 3 or more committed phases, peak among the last 5, more than 0.8 s
\* after the last repetition and a range above 35 degrees over the last 10
\* frames raises rep_count by 1.
DueRepIsCounted ==
    [][(rep_due' => rep_count' = rep_count + 1)]_vars

\* C12: over one steady curl, from above 150 degrees down to below 70 and
\* back up, the phases universal_rep_detection commits are quarter, peak,
\* return, end and start, in this order.
CurlOrder == <<"quarter", "peak", "return", "end", "start">>

CurlPhasesInOrder ==
    driver = "api_curl" =>
        \A i \in 1..Len(phase_history) :
            i <= Len(CurlOrder) /\ phase_history[i] = CurlOrder[i]

\* C13: with two clients connected, a message handled for the second client
\* changes none of rep_count, current_phase, angle_buffer, phase_buffer and
\* phase_history as the first client left them.
ClientsAreIsolated ==
    [][((driver = "api_session" /\ client = 1 /\ client' = 2)
          => UNCHANGED <<rep_count, current_phase, angle_buffer, phase_buffer,
                         phase_history>>)]_vars

\* C14: no reset, binding or other frame is handled between process_frame of
\* a frame and the response built from it: the step that follows the
\* processing of a frame is its response, which finds the corrector as
\* process_frame left it.
FrameHandledWhole ==
    [][(loop_holder = "ws_frame"
          => /\ loop_holder' = "none"
             /\ UNCHANGED <<rep_count, current_phase, last_rep_time, angle_buffer,
                            phase_buffer, phase_history, outcome>>)]_vars

\* C14, its case: a reset handled after the tenth frame of a session was
\* processed and answered
ResetAfterWholeFrame ==
    /\ driver = "api_session"
    /\ outcome \in {"reset", "session_reset"}
    /\ loop_holder = "none"
    /\ Len(angle_buffer) = UniversalWindow
    /\ Len(phase_buffer) = 1

\* C15: after a reset, by POST /api/reset or by the WebSocket message
\* 'reset', rep_count is 0, current_phase is start and angle_buffer,
\* phase_buffer and phase_history are empty.
ResetEmptiesSession ==
    outcome \in {"reset", "session_reset"} =>
        /\ rep_count = 0
        /\ current_phase = "start"
        /\ angle_buffer = <<>>
        /\ phase_buffer = <<>>
        /\ phase_history = <<>>

\* C16: a reset that follows the same reset changes nothing: two resets in
\* a row leave the state one reset leaves.
SecondResetChangesNothing ==
    [][(repeated'
          => UNCHANGED <<rep_count, current_phase, last_rep_time, angle_buffer,
                         phase_buffer, phase_history, phase_transition_count,
                         current_exercise_id, current_exercise_name,
                         session_start_time>>)]_vars

\* C16, its case: POST /api/reset twice in a row on a session that had
\* committed two phases
ResetTwice ==
    /\ repeated
    /\ outcome = "session_reset"
    /\ session_start_time = "None"
    /\ Len(angle_buffer) > UniversalWindow
    /\ Len(phase_buffer) >= 3

\* C17: after an exercise was bound, by POST /api/start-exercise or by the
\* WebSocket message 'set_exercise' with an id or a name, rep_count is 0,
\* current_phase is start, last_rep_time is 0 and angle_buffer, phase_buffer
\* and phase_history are empty.
BindingEmptiesSession ==
    (outcome \in {"started", "exercise_set"} /\ returned # "False") =>
        /\ rep_count = 0
        /\ current_phase = "start"
        /\ last_rep_time = 0
        /\ angle_buffer = <<>>
        /\ phase_buffer = <<>>
        /\ phase_history = <<>>

\* C18: a request for an exercise id the database lacks is not answered
\* with status "started" or type "exercise_set".
UnknownIdIsRefused ==
    returned = "False" => outcome \notin {"started", "exercise_set"}

\* C19: a call of set_target_exercise with an id the database lacks changes
\* no field of the corrector.
UnknownIdChangesNothing ==
    [][(returned' = "False"
          => UNCHANGED <<current_exercise_id, current_exercise_name, rep_count,
                         current_phase, last_rep_time, angle_buffer, phase_buffer,
                         phase_history, phase_transition_count,
                         target_exercise_pattern, session_start_time>>)]_vars

\* C19, its case: an unknown id asked for while "xiA6lRr" is bound and a
\* phase is committed
UnknownIdOnRunningSession ==
    /\ returned = "False"
    /\ current_exercise_id = "xiA6lRr"
    /\ current_phase = "peak"
    /\ phase_history # <<>>
    /\ Len(phase_buffer) >= 3

\* C20: a frame without landmarks, and a call of universal_rep_detection
\* with empty features, return without an exception and leave rep_count,
\* current_phase, last_rep_time, angle_buffer, phase_buffer and
\* phase_history as they were.
NoLandmarksChangesNothing ==
    [][(outcome' \in {"no_landmarks", "no_features"}
          => UNCHANGED <<rep_count, current_phase, last_rep_time, angle_buffer,
                         phase_buffer, phase_history>>)]_vars

\* C20, its case: the pose is lost while peak is committed on the API
LandmarksLostAtPeak ==
    /\ driver = "professional_api"
    /\ outcome = "no_landmarks"
    /\ current_phase = "peak"
    /\ phase_history # <<>>
    /\ Len(angle_buffer) > UniversalWindow

\* What advanced_rep_detection and the methods it calls read of the
\* thresholds it selects
ThresholdKeys == {"min_angle_range", "phase_stability", "rep_cooldown", "velocity_threshold"}

\* C21: for every category the thresholds advanced_rep_detection selects from
\* the tables the constructor loads define the minimum angle range, the
\* consensus frame count, the cooldown and the velocity threshold.
EveryCategoryDefinesThresholds ==
    driver = "comprehensive" =>
        \A c \in Categories : ThresholdKeys \subseteq DOMAIN category_thresholds(c)

\* C22: the vote of universal_rep_detection has one outcome for every
\* content of phase_buffer, so that two sessions fed the same frames commit
\* the same phases: whenever a vote is taken, one phase is the most common.
VoteHasOneOutcome ==
    (driver \in ApiDrivers /\ Len(phase_buffer) >= 3) =>
        Cardinality(MostCommon(phase_buffer)) = 1

\* The capacities the constructor of a driver's class gives the three deques
Capacity(d) ==
    IF d \in ComprehensiveDrivers
    THEN [angle |-> ComprehensiveAngleMaxlen, phase |-> ComprehensivePhaseMaxlen,
          history |-> ComprehensiveHistoryMaxlen]
    ELSE IF d \in EnhancedDrivers
    THEN [angle |-> EnhancedAngleMaxlen, phase |-> EnhancedPhaseMaxlen,
          history |-> ProfessionalHistoryMaxlen]
    ELSE IF d = "rep_counter"
    THEN [angle |-> CounterAngleMaxlen, phase |-> CounterPhaseMaxlen,
          history |-> CounterHistoryMaxlen]
    ELSE [angle |-> ProfessionalAngleMaxlen, phase |-> ProfessionalPhaseMaxlen,
          history |-> ProfessionalHistoryMaxlen]

\* A step leaves a deque of capacity cap as it was, empties it, appends to
\* it while it has room, or drops its oldest entry for the new one
Evicts(old, new, cap) ==
    \/ new = old
    \/ new = <<>>
    \/ Len(old) < cap /\ Len(new) = Len(old) + 1 /\ SubSeq(new, 1, Len(old)) = old
    \/ Len(old) = cap /\ Len(new) = cap /\ SubSeq(new, 1, cap - 1) = SubSeq(old, 2, cap)

\* C23: angle_buffer, phase_buffer and phase_history never hold more than
\* their capacity (60, 20, 10 in ComprehensivePoseCorrector, 45, 10, 20 in
\* ProfessionalPoseCorrector), and a push into a full one drops exactly the
\* oldest entry.
BuffersKeepCapacity ==
    [][(/\ Len(angle_buffer') <= Capacity(driver).angle
        /\ Len(phase_buffer') <= Capacity(driver).phase
        /\ Len(phase_history') <= Capacity(driver).history
        /\ Evicts(angle_buffer, angle_buffer', Capacity(driver).angle)
        /\ Evicts(phase_buffer, phase_buffer', Capacity(driver).phase)
        /\ Evicts(phase_history, phase_history', Capacity(driver).history))]_vars

\* C23, its case: the second curl of a session of the API, with angle_buffer
\* (45) and phase_buffer (10) of ProfessionalPoseCorrector full and the first
\* frames of the session dropped
FullBuffersPushed ==
    /\ driver = "api_curl"
    /\ frames > ProfessionalAngleMaxlen + 1
    /\ Len(angle_buffer) = ProfessionalAngleMaxlen
    /\ Len(phase_buffer) = ProfessionalPhaseMaxlen
    /\ current_phase # "start"

\* C24: a frame of advanced_rep_detection or universal_rep_detection that
\* raises rep_count sets last_rep_time to its timestamp and leaves the phase
\* history empty.
RepClearsHistory ==
    [][((driver \in EngineDrivers \cup ApiDrivers /\ rep_count' = rep_count + 1)
          => (last_rep_time' = now' /\ phase_history' = <<>>))]_vars

\* The candidate the guard table gives for the committed phase, a position
\* p = num / den of the window and a velocity v in hundredths, vT being the
\* velocity threshold in hundredths
GuardTable(phase, p, v, vT) ==
    IF phase = "start" /\ 100 * p.num > 25 * p.den /\ v > vT THEN "quarter"
    ELSE IF phase = "quarter" /\ 100 * p.num > 70 * p.den /\ 10 * v > 8 * vT THEN "peak"
    ELSE IF phase = "quarter" /\ 100 * p.num < 15 * p.den THEN "start"
    ELSE IF phase = "peak" /\ 100 * p.num < 60 * p.den /\ 10 * v > 6 * vT THEN "return"
    ELSE IF phase = "return" /\ 100 * p.num < 20 * p.den /\ 10 * v < 5 * vT THEN "end"
    ELSE IF phase = "return" /\ 100 * p.num > 70 * p.den THEN "peak"
    ELSE IF phase = "end" /\ ~(v < 100 /\ 100 * p.num < 15 * p.den)
                          /\ v > vT /\ 100 * p.num > 20 * p.den THEN "start"
    ELSE phase

\* C25: when the range is at least min_angle_range, the candidate
\* determine_exercise_phase returns for the committed phase, the position and
\* the velocity of the frame is the one of the guard table.
CandidateFollowsGuardTable ==
    [][((/\ driver \in ComprehensiveDrivers
         /\ frames' = frames + 1
         /\ outcome' \in {"ok", "caught"}
         /\ observed_range' >= category_thresholds(current_category').min_angle_range)
          => classified'.candidate =
                GuardTable(current_phase, classified'.position, classified'.velocity,
                           category_thresholds(current_category').velocity_threshold))]_vars

\* C25, its case: a frame classified as end from return, low in the window
\* and slow
EndProposedFromReturn ==
    /\ driver = "classifier"
    /\ outcome = "ok"
    /\ classified.candidate = "end"
    /\ current_phase = "return"
    /\ 100 * classified.position.num < 20 * classified.position.den
    /\ observed_range >= category_thresholds(current_category).min_angle_range

\* The number of candidates p among the last n of a phase buffer that were
\* cast while another phase was committed
Proposals(buffer, holds, n, p) ==
    Cardinality({i \in 1..Len(buffer) :
                    i > Len(buffer) - n /\ buffer[i] = p /\ ~holds[i]})

\* C26: current_phase changes to a phase only when at least 2 of the last
\* phase_stability candidates proposed that phase while another phase was
\* committed: candidates that held the phase while it was committed do not
\* count towards a later change back to it.
ChangeNeedsTwoProposals ==
    [][((driver \in EngineDrivers /\ current_phase' # current_phase)
          => Proposals(phase_buffer', vote_holds', StabilityFrames(driver),
                       current_phase') >= 2)]_vars

\* C28: after a reset current_phase leaves start, and changes later on, only
\* on the consensus of the candidates of frames ingested after the reset:
\* at least 3 of them, the committed phase the most common among them.
ChangeNeedsFreshVotes ==
    [][((driver = "api_summary" /\ frames' = frames + 1 /\ current_phase' # current_phase)
          => /\ fresh_votes' >= 3
             /\ current_phase' \in MostCommon(Tail_(phase_buffer', fresh_votes')))]_vars

\* C29: get_session_summary returns a summary without error in every state
\* start-exercise, frames and reset reach, right after POST /api/reset too.
SummaryNeverFails == driver = "api_summary" => outcome # "summary_failed"

\* C30: in universal_rep_detection current_phase changes to a phase only when
\* at least 3 readings in phase_buffer agree on that phase.
ChangeNeedsThreeReadings ==
    [][((driver \in ApiDrivers /\ frames' = frames + 1 /\ current_phase' # current_phase)
          => Count(phase_buffer', current_phase') >= 3)]_vars

\* C31: when several channels have the same largest range the primary
\* channel is the one of lowest index: in the generic branch of
\* universal_rep_detection, where every joint has the same range, the primary
\* angle appended to angle_buffer is the left elbow's.
LowestChannelOnTie ==
    [][((/\ driver = "api_generic"
         /\ frames' = frames + 1
         /\ Len(angle_buffer) >= UniversalWindow)
          => \E a \in FrameAngles(driver, frames') :
                angle_buffer'[Len(angle_buffer')] = <<Pose(a)[1]>>)]_vars

\* C32: when advanced_rep_detection returns the not-ready result, for an
\* empty frame or a window of fewer than 15 frames, the phase it reports is
\* current_phase.
NotReadyReportsCurrentPhase == outcome = "not_ready" => reported_phase = current_phase

PositionWithinUnitInterval ==
    driver \in EngineDrivers
        => /\ classified.position.den > 0
           /\ classified.position.num >= 0
           /\ classified.position.num <= classified.position.den

\* A classified frame at the top of its window, and one at the bottom
PositionAtAnEnd ==
    /\ driver \in EngineDrivers
    /\ outcome = "ok"
    /\ observed_range >= 25
    /\ classified.position.num \in {0, classified.position.den}
    /\ current_phase # "start"

\* C35: the candidate determine_exercise_phase returns is the committed phase
\* or a phase the allowed-transition table reaches from it, so the stabilizer
\* is never handed a candidate its table rejects.
CandidateWithinTable ==
    [][((/\ driver \in ComprehensiveDrivers
         /\ frames' = frames + 1
         /\ outcome' \in {"ok", "caught"})
          => classified'.candidate \in {current_phase} \cup valid_transitions[current_phase])]_vars

\* C35, its case: a frame classified as return while peak is committed, the
\* vote not yet carried
ReturnProposedFromPeak ==
    /\ driver = "classifier"
    /\ outcome = "ok"
    /\ classified.candidate = "return"
    /\ current_phase = "peak"
    /\ classified.candidate \in valid_transitions[current_phase]

\* C36: EnhancedRepCounter.enhanced_rep_detection counts a repetition only if
\* peak was the committed phase at some frame since the previous counted
\* repetition.
CounterRepNeedsPeak ==
    [][((driver = "rep_counter" /\ rep_count' > rep_count) => seen_peak)]_vars

\* C37: phase_transitions of the session summary, which is
\* phase_transition_count, is the number of committed changes of
\* current_phase since the session was started or last reset: a frame of the
\* API that commits a change of phase adds one to it.
SummaryCountsCommits ==
    [][((/\ driver \in ApiDrivers
         /\ frames' = frames + 1
         /\ current_phase' # current_phase)
          => phase_transition_count' = phase_transition_count + 1)]_vars

\* C38: the sequence term of ProfessionalPoseCorrector.calculate_phase_confidence
\* follows the default rule of calculate_movement_quality: after a call of
\* advanced_rep_detection it is 0.5 while fewer than five committed phases
\* are in the history, and the value of calculate_movement_quality's term.
SequenceTermsDefaultAlike ==
    (driver = "professional_advanced" /\ outcome = "ok")
        => /\ Len(phase_history) < 5 => sequence_score(phase_history) = 5
           /\ sequence_score(phase_history) = sequence_quality(phase_history)

\* C39: determine_movement_phase of ProfessionalPoseCorrector returns the
\* candidate determine_exercise_phase of ComprehensivePoseCorrector returns
\* for the same committed phase, position, velocity, range and thresholds:
\* on a frame of advanced_rep_detection whose range is at least
\* min_angle_range its candidate is the one of the guard table.
ClassifiersAgree ==
    [][((/\ driver = "professional_advanced"
         /\ frames' = frames + 1
         /\ outcome' = "ok"
         /\ observed_range' >= thresholds_.min_angle_range)
          => classified'.candidate =
                GuardTable(current_phase, classified'.position, classified'.velocity,
                           thresholds_.velocity_threshold))]_vars

=============================================================================
